---------------------------- MODULE Spec2Model ----------------------------
(***************************************************************************)
(* Model of the lite generation pipeline of scholarqa:                     *)
(*   scholarqa/lite/prompt_utils.py     quote normalizer, aggregator       *)
(*   scholarqa/lite/response_parser.py  response parser, reconciler        *)
(*   scholarqa/lite/scholar_qa_lite.py  report generation, report title    *)
(*                                                                         *)
(* A Python str is modelled as a sequence of atoms.  An atom is a one      *)
(* character string ("a", ".", " ", "\n", "(", ...) or the name of a       *)
(* character or literal that the code treats as a unit: "ELLIPSIS"         *)
(* (U+2026), "EMDASH" (U+2014), "LDQUO" (U+201C), "EACUTE" (U+00E9),       *)
(* "SECTION;", "<think>", "</think>", "Model", "source", "Citations:".     *)
(* None of the literals overlaps itself, so matching them as atoms is      *)
(* matching them as substrings.                                            *)
(***************************************************************************)
EXTENDS Integers, Sequences, FiniteSets, TLC

VARIABLES
    \* quote normalizer, driven as in test_join_split_roundtrip
    npc, texts, normalized, combined, split_back, renormalized,
    \* prepare_references_data: the input table, the loop position, the outputs
    apc, scored_df, row_idx, references, per_paper_data, quotes_metadata,
    \* parse_sections: the model response and the locals of the function
    ppc, response, cleaned, raw_sections, section_texts, section_titles,
    \* _clean_tldr: a summary line and its cleaned form
    tpc, summary_line, cleaned_line,
    \* filter_per_paper_summaries: its arguments, locals and results
    fpc, f_section_texts, f_per_paper_data, all_quotes_metadata, all_text,
    citations, cit_idx, seen_corpus_ids, per_paper_summaries_extd,
    f_quotes_metadata,
    \* ScholarQALite.generate_report: its position, the path _generate_title
    \* took, the title model calls made, self.report_title, the returned report
    gpc, title_outcome, title_calls, report_title, report,
    \* _normalize_paragraph_breaks: a body text, the result of one application
    \* and of a second application to that result
    bpc, body_text, broken_once, broken_twice

normVars == <<npc, texts, normalized, combined, split_back, renormalized>>

aggVars == <<apc, scored_df, row_idx, references, per_paper_data, quotes_metadata>>

parseVars == <<ppc, response, cleaned, raw_sections, section_texts, section_titles>>

tldrVars == <<tpc, summary_line, cleaned_line>>

filterVars ==
    <<fpc, f_section_texts, f_per_paper_data, all_quotes_metadata, all_text,
      citations, cit_idx, seen_corpus_ids, per_paper_summaries_extd,
      f_quotes_metadata>>

reportVars == <<gpc, title_outcome, title_calls, report_title, report>>

breakVars == <<bpc, body_text, broken_once, broken_twice>>

vars ==
    <<normVars, aggVars, parseVars, tldrVars, filterVars, reportVars, breakVars>>

\* what each component leaves alone
notNorm == <<aggVars, parseVars, tldrVars, filterVars, reportVars, breakVars>>
notAgg == <<normVars, parseVars, tldrVars, filterVars, reportVars, breakVars>>
notParse == <<normVars, aggVars, tldrVars, filterVars, reportVars, breakVars>>
notTldr == <<normVars, aggVars, parseVars, filterVars, reportVars, breakVars>>
notFilter == <<normVars, aggVars, parseVars, tldrVars, reportVars, breakVars>>
notBreak == <<normVars, aggVars, parseVars, tldrVars, filterVars, reportVars>>

-----------------------------------------------------------------------------
(* Bounds of the model *)

MaxTexts == 2
MaxTextLen == 3
MaxRows == 2
MaxSnippets == 2
MaxResponseLen == 5
MaxFragments == 3
MaxSections == 2
MaxBodyLen == 5

-----------------------------------------------------------------------------
(* Python str primitives on sequences of atoms *)

\* str.isspace() for the atoms of the model
IsSpace(c) == c \in {" ", "\n"}

\* the least and the greatest element of a non-empty set of integers
Least(S) == CHOOSE x \in S : \A y \in S : x <= y
Greatest(S) == CHOOSE x \in S : \A y \in S : x >= y

\* all sequences over S of length at most n
SeqUpTo(S, n) == UNION {[1..k -> S] : k \in 0..n}

\* s[i:j] with 1-based inclusive bounds; empty when i > j
Slice(s, i, j) == IF i > j THEN <<>> ELSE SubSeq(s, i, j)

\* str.lstrip(): drop leading whitespace
LStrip(s) ==
    LET kept == {j \in 1..Len(s) : ~IsSpace(s[j])}
    IN  IF kept = {} THEN <<>> ELSE SubSeq(s, Least(kept), Len(s))

\* str.rstrip(): drop trailing whitespace
RStrip(s) ==
    LET kept == {j \in 1..Len(s) : ~IsSpace(s[j])}
    IN  IF kept = {} THEN <<>> ELSE SubSeq(s, 1, Greatest(kept))

\* str.strip()
Strip(s) == RStrip(LStrip(s))

\* str.rstrip("."): drop every trailing period
RStripPeriods(s) ==
    LET kept == {j \in 1..Len(s) : s[j] # "."}
    IN  IF kept = {} THEN <<>> ELSE SubSeq(s, 1, Greatest(kept))

\* sep.join(parts)
RECURSIVE Join(_, _)
Join(parts, sep) ==
    IF parts = <<>> THEN <<>>
    ELSE IF Len(parts) = 1 THEN parts[1]
    ELSE parts[1] \o sep \o Join(Tail(parts), sep)

\* whether sep occurs in s at position i
MatchesAt(s, sep, i) ==
    /\ i + Len(sep) - 1 <= Len(s)
    /\ \A k \in 1..Len(sep) : s[i + k - 1] = sep[k]

\* s.split(sep): left-to-right, non-overlapping; always at least one piece
RECURSIVE SplitFrom(_, _, _)
SplitFrom(s, sep, i) ==
    LET found == {j \in i..Len(s) : MatchesAt(s, sep, j)}
    IN  IF found = {} THEN <<Slice(s, i, Len(s))>>
        ELSE <<Slice(s, i, Least(found) - 1)>>
                 \o SplitFrom(s, sep, Least(found) + Len(sep))

Split(s, sep) == SplitFrom(s, sep, 1)

\* the least index j >= i not holding whitespace, or Len(s) + 1 when there is
\* none: where a greedy \s* that starts at i stops
FirstNonSpace(s, i) ==
    LET rest == {j \in i..Len(s) : ~IsSpace(s[j])}
    IN  IF rest # {} THEN Least(rest)
        ELSE IF i > Len(s) THEN i ELSE Len(s) + 1

\* s.find(atom) from position i: the least index >= i holding an atom of A,
\* or 0 when there is none
FindIn(s, A, i) ==
    LET found == {j \in i..Len(s) : s[j] \in A}
    IN  IF found = {} THEN 0 ELSE Least(found)

\* \d
IsDigit(c) == c \in {"0", "1", "2", "3", "4", "5", "6", "7", "8", "9"}

\* the index after the run of digits that starts at i
AfterDigits(s, i) ==
    LET rest == {j \in i..Len(s) : ~IsDigit(s[j])}
    IN  IF rest # {} THEN Least(rest)
        ELSE IF i > Len(s) THEN i ELSE Len(s) + 1

\* atoms whose first character is in [A-Z]
StartsUpper(c) ==
    c \in {"A", "B", "C", "D", "R", "S", "T", "X", "LLM", "Model", "Memory",
           "MEMORY", "SECTION;", "Citations:", "TLDR;", "Source", "SOURCE",
           "Generated"}

\* anyascii on one character: the transliterations the tests pin down
AnyAsciiChar(c) ==
    CASE c = "ELLIPSIS" -> <<".", ".", ".">>
      [] c = "EMDASH"   -> <<"-">>
      [] c = "LDQUO"    -> <<"\"">>
      [] c = "EACUTE"   -> <<"e">>
      [] OTHER          -> <<c>>

\* anyascii(s) from position i: every character outside ASCII is replaced by
\* its transliteration
RECURSIVE AnyAsciiFrom(_, _)
AnyAsciiFrom(s, i) ==
    LET found == {j \in i..Len(s) : AnyAsciiChar(s[j]) # <<s[j]>>}
    IN  IF found = {} THEN Slice(s, i, Len(s))
        ELSE Slice(s, i, Least(found) - 1) \o AnyAsciiChar(s[Least(found)])
                 \o AnyAsciiFrom(s, Least(found) + 1)

AnyAscii(s) == AnyAsciiFrom(s, 1)

-----------------------------------------------------------------------------
(* Quote normalizer: prompt_utils.normalize_snippet_quote *)

\* the separator of "...".join() and split("...")
Separator == <<".", ".", ".">>

\* anyascii(text.strip()).rstrip(".")
normalize_snippet_quote(text) == RStripPeriods(AnyAscii(Strip(text)))

NormChars == {"a", ".", " ", "ELLIPSIS", "EMDASH", "LDQUO"}

NormTexts == SeqUpTo(NormChars, MaxTextLen)

\* the normalizer's variables while another component runs
IdleNorm ==
    /\ npc = "idle"
    /\ texts = <<>>
    /\ normalized = <<>>
    /\ combined = <<>>
    /\ split_back = <<>>
    /\ renormalized = <<>>

\* the aggregator's variables while another component runs
IdleAgg ==
    /\ apc = "idle"
    /\ scored_df = <<>>
    /\ row_idx = 0
    /\ references = <<>>
    /\ per_paper_data = <<>>
    /\ quotes_metadata = <<>>

\* the parser's variables while another component runs
IdleParse ==
    /\ ppc = "idle"
    /\ response = <<>>
    /\ cleaned = <<>>
    /\ raw_sections = <<>>
    /\ section_texts = <<>>
    /\ section_titles = <<>>

\* the summary cleaner's variables while another component runs
IdleTldr ==
    /\ tpc = "idle"
    /\ summary_line = <<>>
    /\ cleaned_line = <<>>

\* the reconciler's variables while another component runs
IdleFilter ==
    /\ fpc = "idle"
    /\ f_section_texts = <<>>
    /\ f_per_paper_data = <<>>
    /\ all_quotes_metadata = <<>>
    /\ all_text = <<>>
    /\ citations = <<>>
    /\ cit_idx = 0
    /\ seen_corpus_ids = {}
    /\ per_paper_summaries_extd = <<>>
    /\ f_quotes_metadata = <<>>

\* the report generator's variables while a component runs on its own
IdleReport ==
    /\ gpc = "idle"
    /\ title_outcome = "none"
    /\ title_calls = 0
    /\ report_title = <<>>
    /\ report = <<>>

\* the paragraph-break variables while another component runs
IdleBreak ==
    /\ bpc = "idle"
    /\ body_text = <<>>
    /\ broken_once = <<>>
    /\ broken_twice = <<>>

InitNorm ==
    /\ IdleAgg
    /\ IdleReport
    /\ IdleBreak
    /\ IdleParse
    /\ IdleTldr
    /\ IdleFilter
    /\ npc = "start"
    \* the code joins only a non-empty list (prompt_utils.py line 54)
    /\ texts \in SeqUpTo(NormTexts, MaxTexts) \ {<<>>}
    /\ normalized = <<>>
    /\ combined = <<>>
    /\ split_back = <<>>
    /\ renormalized = <<>>

\* normalized = [normalize_snippet_quote(q) for q in quotes]
NormalizeAll ==
    /\ npc = "start"
    /\ normalized' = [i \in 1..Len(texts) |-> normalize_snippet_quote(texts[i])]
    /\ npc' = "normalized"
    /\ UNCHANGED <<texts, combined, split_back, renormalized, notNorm>>

\* combined = "...".join(normalized)
JoinNormalized ==
    /\ npc = "normalized"
    /\ combined' = Join(normalized, Separator)
    /\ npc' = "joined"
    /\ UNCHANGED <<texts, normalized, split_back, renormalized, notNorm>>

\* split_back = [s.strip() for s in combined.split("...")]
SplitBack ==
    /\ npc = "joined"
    /\ split_back' = LET parts == Split(combined, Separator)
                     IN  [i \in 1..Len(parts) |-> Strip(parts[i])]
    /\ npc' = "split"
    /\ UNCHANGED <<texts, normalized, combined, renormalized, notNorm>>

\* normalizing the already normalized quotes once more
Renormalize ==
    /\ npc = "split"
    /\ renormalized' =
           [i \in 1..Len(normalized) |-> normalize_snippet_quote(normalized[i])]
    /\ npc' = "done"
    /\ UNCHANGED <<texts, normalized, combined, split_back, notNorm>>

NextNorm == NormalizeAll \/ JoinNormalized \/ SplitBack \/ Renormalize

SpecNorm == InitNorm /\ [][NextNorm]_vars

-----------------------------------------------------------------------------
(* Reference and quote aggregator: prompt_utils.prepare_references_data *)

\* dict.get(key, default)
Get(d, key, default) == IF key \in DOMAIN d THEN d[key] ELSE default

\* d[key] = value
Put(d, key, value) ==
    [x \in DOMAIN d \cup {key} |-> IF x = key THEN value ELSE d[x]]

\* f"[{corpus_id} | {author} | {year} | Citations: {citation_count}]"
ReferenceString(corpus_id, author, year, citation_count) ==
    <<"[">> \o corpus_id \o <<" ", "|", " ">> \o author \o <<" ", "|", " ">>
        \o year \o <<" ", "|", " ", "Citations:", " ">> \o citation_count
        \o <<"]">>

KeyDoe == ReferenceString(<<"1">>, <<"D", "o", "e">>, <<"2", "0">>, <<"5">>)
KeyRoe == ReferenceString(<<"2">>, <<"R", "o", "e">>, <<"2", "1">>, <<"7">>)

RefKeys == {KeyDoe, KeyRoe}

\* retrieved snippets; a field a snippet does not carry is absent from it
SnippetA ==
    [text |-> <<"A", ".">>, char_offset |-> 5, section_title |-> "Methods",
     pdf_hash |-> "h1", sentence_offsets |-> <<<<0, 2>>>>]
SnippetB == [text |-> <<"B", ".">>, char_offset |-> 0]
SnippetE == [text |-> <<>>, pdf_hash |-> "h2"]

Snippets == {SnippetA, SnippetB, SnippetE}

\* the sentences column: lists of distinct snippets
SentenceLists ==
    {l \in SeqUpTo(Snippets, MaxSnippets) :
        \A i, j \in 1..Len(l) : i # j => l[i] # l[j]}

Abstracts == {<<>>, <<"X", ".">>}

\* rows of the table; the code never reads the abstract of a row with
\* snippets, so such a row carries one abstract only
Rows ==
    {r \in [reference_string : RefKeys, sentences : SentenceLists,
            abstract : Abstracts] :
        r.sentences # <<>> => r.abstract = <<"X", ".">>}

\* lambda s: s.get("char_offset", 0)
OffsetKey(s) == Get(s, "char_offset", 0)

\* InsertByOffset with x placed ahead of the elements of equal key: an
\* unstable sort
RECURSIVE InsertBeforeEqual(_, _)
InsertBeforeEqual(x, l) ==
    IF l = <<>> THEN <<x>>
    ELSE IF OffsetKey(x) <= OffsetKey(Head(l)) THEN <<x>> \o l
    ELSE <<Head(l)>> \o InsertBeforeEqual(x, Tail(l))

\* x placed behind every element whose key is not greater: keeps equal keys
\* in their order of arrival
RECURSIVE InsertByOffset(_, _)
InsertByOffset(x, l) ==
    IF l = <<>> THEN <<x>>
    ELSE IF OffsetKey(x) < OffsetKey(Head(l)) THEN <<x>> \o l
    ELSE <<Head(l)>> \o InsertByOffset(x, Tail(l))

\* sorted(sentences, key=lambda s: s.get("char_offset", 0)): stable, ascending
RECURSIVE SortedByOffset(_)
SortedByOffset(l) ==
    IF l = <<>> THEN <<>>
    ELSE InsertByOffset(l[Len(l)], SortedByOffset(SubSeq(l, 1, Len(l) - 1)))

\* the quote metadata entry of one snippet
SnippetMetadata(sent) ==
    [quote |-> normalize_snippet_quote(sent.text),
     section_title |-> Get(sent, "section_title", "abstract"),
     pdf_hash |-> Get(sent, "pdf_hash", ""),
     sentence_offsets |-> Get(sent, "sentence_offsets", <<>>)]

\* FromSnippets with the combined quote built from the raw snippet texts
FromSnippetsRawQuote(row) ==
    LET sentences == SortedByOffset(row.sentences)
    IN  [text |-> Join([i \in 1..Len(sentences) |-> sentences[i].text], <<" ">>),
         snippet_metadata |->
             [i \in 1..Len(sentences) |-> SnippetMetadata(sentences[i])],
         combined_quote |->
             Join([i \in 1..Len(sentences) |-> sentences[i].text], Separator)]

\* the branch "if sentences:" of one loop iteration
FromSnippets(row) ==
    LET sentences == SortedByOffset(row.sentences)
        normalized_quotes ==
            [i \in 1..Len(sentences) |-> normalize_snippet_quote(sentences[i].text)]
    IN  [text |-> Join([i \in 1..Len(sentences) |-> sentences[i].text], <<" ">>),
         snippet_metadata |->
             [i \in 1..Len(sentences) |-> SnippetMetadata(sentences[i])],
         combined_quote |-> Join(normalized_quotes, Separator)]

\* the branch "else:" of one loop iteration: fall back to the abstract
FromAbstract(row) ==
    LET text == row.abstract
    IN  IF text # <<>>
        THEN [text |-> text,
              snippet_metadata |->
                  <<[quote |-> normalize_snippet_quote(text),
                     section_title |-> "abstract",
                     pdf_hash |-> ""]>>,
              combined_quote |-> normalize_snippet_quote(text)]
        ELSE [text |-> text, snippet_metadata |-> <<>>, combined_quote |-> <<>>]

\* AlreadySeen without the membership test: a later row overwrites
NeverSeen(ref_str) == FALSE

\* "if ref_str in references: continue"
AlreadySeen(ref_str) == ref_str \in DOMAIN references

\* Emit without the guard "if text:"
EmitAlways(ref_str, out) ==
    /\ references' = Put(references, ref_str, out.text)
    /\ per_paper_data' =
           Put(per_paper_data, ref_str,
               [quote |-> out.combined_quote, inline_citations |-> <<>>])
    /\ quotes_metadata' = Put(quotes_metadata, ref_str, out.snippet_metadata)

\* "if text:" and the three assignments under it
Emit(ref_str, out) ==
    IF out.text # <<>>
    THEN /\ references' = Put(references, ref_str, out.text)
         /\ per_paper_data' =
                Put(per_paper_data, ref_str,
                    [quote |-> out.combined_quote, inline_citations |-> <<>>])
         /\ quotes_metadata' = Put(quotes_metadata, ref_str, out.snippet_metadata)
    ELSE UNCHANGED <<references, per_paper_data, quotes_metadata>>

InitAgg ==
    /\ IdleNorm
    /\ IdleReport
    /\ IdleBreak
    /\ IdleParse
    /\ IdleTldr
    /\ IdleFilter
    /\ apc = "loop"
    /\ scored_df \in SeqUpTo(Rows, MaxRows)
    /\ row_idx = 1
    /\ references = <<>>
    /\ per_paper_data = <<>>
    /\ quotes_metadata = <<>>

\* a row whose reference key was already emitted is skipped
SkipSeenRow ==
    /\ apc = "loop"
    /\ row_idx <= Len(scored_df)
    /\ AlreadySeen(scored_df[row_idx].reference_string)
    /\ row_idx' = row_idx + 1
    /\ UNCHANGED <<apc, scored_df, references, per_paper_data, quotes_metadata, notAgg>>

\* a row with snippets
SnippetRow ==
    /\ apc = "loop"
    /\ row_idx <= Len(scored_df)
    /\ LET row == scored_df[row_idx]
       IN  /\ ~AlreadySeen(row.reference_string)
           /\ row.sentences # <<>>
           /\ Emit(row.reference_string, FromSnippets(row))
    /\ row_idx' = row_idx + 1
    /\ UNCHANGED <<apc, scored_df, notAgg>>

\* a row without snippets
AbstractRow ==
    /\ apc = "loop"
    /\ row_idx <= Len(scored_df)
    /\ LET row == scored_df[row_idx]
       IN  /\ ~AlreadySeen(row.reference_string)
           /\ row.sentences = <<>>
           /\ Emit(row.reference_string, FromAbstract(row))
    /\ row_idx' = row_idx + 1
    /\ UNCHANGED <<apc, scored_df, notAgg>>

\* return references, per_paper_data, quotes_metadata
ReturnReferences ==
    /\ apc = "loop"
    /\ row_idx > Len(scored_df)
    /\ apc' = "returned"
    /\ UNCHANGED <<scored_df, row_idx, references, per_paper_data, quotes_metadata, notAgg>>

NextAgg == SkipSeenRow \/ SnippetRow \/ AbstractRow \/ ReturnReferences

SpecAgg == InitAgg /\ [][NextAgg]_vars

-----------------------------------------------------------------------------
(* Response parser: response_parser.parse_sections and its helpers *)

\* re.sub(r"<think>.*?</think>", "", response, flags=re.DOTALL) from position
\* i: a block runs from an opening marker to the nearest closing marker
RECURSIVE SubThink(_, _)
SubThink(s, i) ==
    LET found == {j \in i..Len(s) :
                     s[j] = "<think>" /\ FindIn(s, {"</think>"}, j + 1) # 0}
    IN  IF found = {} THEN Slice(s, i, Len(s))
        ELSE Slice(s, i, Least(found) - 1)
                 \o SubThink(s, FindIn(s, {"</think>"}, Least(found) + 1) + 1)

_strip_think_block(resp) == Strip(SubThink(resp, 1))

\* re.split(r"SECTION;\s*", s) from position i
RECURSIVE SplitSections(_, _)
SplitSections(s, i) ==
    LET marker == FindIn(s, {"SECTION;"}, i)
    IN  IF marker = 0 THEN <<Slice(s, i, Len(s))>>
        ELSE <<Slice(s, i, marker - 1)>>
                 \o SplitSections(s, FirstNonSpace(s, marker + 1))

\* [p.strip() for p in parts if p.strip()]
StripNonEmpty(parts) ==
    SelectSeq([i \in 1..Len(parts) |-> Strip(parts[i])], LAMBDA p : p # <<>>)

\* _extract_sections_raw keeping the empty pieces of the split
ExtractKeepingEmpty(resp) ==
    LET first_section == FindIn(resp, {"SECTION;"}, 1)
        parts == SplitSections(Slice(resp, first_section, Len(resp)), 1)
    IN  IF first_section = 0 THEN <<>>
        ELSE [i \in 1..Len(parts) |-> Strip(parts[i])]

\* _extract_sections_raw without the early return: response[-1:] is split
ExtractWithoutEarlyReturn(resp) ==
    LET first_section == FindIn(resp, {"SECTION;"}, 1)
        from == IF first_section # 0 THEN first_section
                ELSE IF resp = <<>> THEN 1 ELSE Len(resp)
    IN  StripNonEmpty(SplitSections(Slice(resp, from, Len(resp)), 1))

_extract_sections_raw(resp) ==
    LET first_section == FindIn(resp, {"SECTION;"}, 1)
    IN  IF first_section = 0 THEN <<>>
        ELSE StripNonEmpty(
                 SplitSections(Slice(resp, first_section, Len(resp)), 1))

\* where a match of \s*[\(\[][^)\]]*(?:LLM|Model)[^)\]]*[\)\]] that starts at
\* i ends, or 0 when none starts at i
AnnotationEnd(s, i) ==
    LET open == FirstNonSpace(s, i)
    IN  IF open > Len(s) \/ s[open] \notin {"(", "["} THEN 0
        ELSE LET close == FindIn(s, {")", "]"}, open + 1)
             IN  IF close # 0 /\ \E k \in (open + 1)..(close - 1) :
                                      s[k] \in {"LLM", "Model"}
                 THEN close
                 ELSE 0

\* re.sub of that pattern by "" from position i
RECURSIVE SubAnnotations(_, _)
SubAnnotations(s, i) ==
    LET found == {j \in i..Len(s) : AnnotationEnd(s, j) # 0}
    IN  IF found = {} THEN Slice(s, i, Len(s))
        ELSE Slice(s, i, Least(found) - 1)
                 \o SubAnnotations(s, AnnotationEnd(s, Least(found)) + 1)

\* "source", case-insensitive
IsSourceWord(c) == c \in {"source", "Source", "SOURCE"}

\* where a match of \s*\(\d+\s+sources?\) (re.IGNORECASE) that starts at i
\* ends, or 0 when none starts at i
SourceCountEnd(s, i) ==
    LET open == FirstNonSpace(s, i)
        digits == AfterDigits(s, open + 1)
        word == FirstNonSpace(s, digits)
        close == IF word + 1 <= Len(s) /\ s[word + 1] \in {"s", "S"}
                 THEN word + 2 ELSE word + 1
    IN  IF /\ open <= Len(s)
           /\ s[open] = "("
           /\ digits > open + 1
           /\ word > digits
           /\ word <= Len(s)
           /\ IsSourceWord(s[word])
           /\ close <= Len(s)
           /\ s[close] = ")"
        THEN close
        ELSE 0

\* re.sub of that pattern by "" from position i
RECURSIVE SubSourceCounts(_, _)
SubSourceCounts(s, i) ==
    LET found == {j \in i..Len(s) : SourceCountEnd(s, j) # 0}
    IN  IF found = {} THEN Slice(s, i, Len(s))
        ELSE Slice(s, i, Least(found) - 1)
                 \o SubSourceCounts(s, SourceCountEnd(s, Least(found)) + 1)

_clean_tldr(tldr) == Strip(SubSourceCounts(SubAnnotations(tldr, 1), 1))

\* whether "(LLM Memory)", case-insensitive, stands at position i
LlmMemoryAt(s, i) ==
    /\ i + 4 <= Len(s)
    /\ s[i] = "("
    /\ s[i + 1] \in {"LLM", "llm"}
    /\ s[i + 2] = " "
    /\ s[i + 3] \in {"Memory", "memory", "MEMORY"}
    /\ s[i + 4] = ")"

\* re.sub(r"\(LLM Memory\)", "[LLM MEMORY | 2024]", text, flags=re.IGNORECASE)
RECURSIVE SubLlmMemory(_, _)
SubLlmMemory(s, i) ==
    LET found == {j \in i..Len(s) : LlmMemoryAt(s, j)}
    IN  IF found = {} THEN Slice(s, i, Len(s))
        ELSE Slice(s, i, Least(found) - 1)
                 \o <<"[", "LLM", " ", "MEMORY", " ", "|", " ", "2", "0", "2", "4", "]">>
                 \o SubLlmMemory(s, Least(found) + 5)

_normalize_llm_memory(text) == SubLlmMemory(text, 1)

\* ParagraphBreakAt without the upper-case test: [.!?]\n followed by any
\* character
ParagraphBreakAnyCase(s, i) ==
    /\ i + 2 <= Len(s)
    /\ s[i] \in {".", "!", "?"}
    /\ s[i + 1] = "\n"

\* whether [.!?]\n[A-Z] stands at position i
ParagraphBreakAt(s, i) ==
    /\ i + 2 <= Len(s)
    /\ s[i] \in {".", "!", "?"}
    /\ s[i + 1] = "\n"
    /\ StartsUpper(s[i + 2])

\* re.sub(r"([.!?])\n([A-Z])", r"\1\n\n\2", text) from position i
RECURSIVE SubParagraphBreaks(_, _)
SubParagraphBreaks(s, i) ==
    LET found == {j \in i..Len(s) : ParagraphBreakAt(s, j)}
    IN  IF found = {} THEN Slice(s, i, Len(s))
        ELSE Slice(s, i, Least(found)) \o <<"\n", "\n">>
                 \o <<s[Least(found) + 2]>>
                 \o SubParagraphBreaks(s, Least(found) + 3)

_normalize_paragraph_breaks(text) == SubParagraphBreaks(text, 1)

\* s.split("\n", 1): at most two pieces
SplitFirstLine(s) ==
    LET nl == FindIn(s, {"\n"}, 1)
    IN  IF nl = 0 THEN <<s>>
        ELSE <<Slice(s, 1, nl - 1), Slice(s, nl + 1, Len(s))>>

\* _convert_section_format with the title left untrimmed
ConvertUntrimmedTitle(raw_section) ==
    LET lines == SplitFirstLine(raw_section)
        title == lines[1]
        remaining == IF Len(lines) > 1 THEN Strip(lines[2]) ELSE <<>>
        remaining_lines == SplitFirstLine(remaining)
        tldr_line == _clean_tldr(remaining_lines[1])
        body0 == IF Len(remaining_lines) > 1 THEN Strip(remaining_lines[2]) ELSE <<>>
        body == _normalize_paragraph_breaks(_normalize_llm_memory(body0))
    IN  <<title, title \o <<"\n">> \o tldr_line \o <<"\n">> \o body>>

\* returns <<title, formatted_section_text>>
_convert_section_format(raw_section) ==
    LET lines == SplitFirstLine(raw_section)
        title == Strip(lines[1])
        remaining == IF Len(lines) > 1 THEN Strip(lines[2]) ELSE <<>>
        remaining_lines == SplitFirstLine(remaining)
        tldr_line == _clean_tldr(remaining_lines[1])
        body0 == IF Len(remaining_lines) > 1 THEN Strip(remaining_lines[2]) ELSE <<>>
        body == _normalize_paragraph_breaks(_normalize_llm_memory(body0))
    IN  <<title, title \o <<"\n">> \o tldr_line \o <<"\n">> \o body>>

ResponseAtoms == {"SECTION;", " ", "\n", "a", "<think>", "</think>"}

\* replies in the format the prompt asks for: a section with an annotated
\* summary line and a body of two sentences with an (LLM Memory) mark; a
\* section of one line followed by a section whose summary line comes after a
\* blank line and has no body; a think block before a section
SampleResponses ==
    {<<"SECTION;", " ", "T", "\n", "TLDR;", " ", "s", ".", " ", "(", "Model", "-",
       "Generated", ")", " ", "\n", " ", "B", ".", " ", "(", "LLM", " ",
       "Memory", ")", "\n", "C", ".", "\n">>,
     <<"SECTION;", "T", "\n", "SECTION;", " ", "D", " ", "\n", "\n", " ", "s",
       " ", "(", "1", " ", "source", ")", "\n">>,
     <<"<think>", "a", "\n", "</think>", "a", "SECTION;", "T", " ", "a", "\n",
       "s", "\n", "a", "\n", "\n", "a">>}

InitParse ==
    /\ IdleNorm
    /\ IdleReport
    /\ IdleBreak
    /\ IdleAgg
    /\ IdleTldr
    /\ IdleFilter
    /\ ppc = "start"
    /\ response \in SeqUpTo(ResponseAtoms, MaxResponseLen) \cup SampleResponses
    /\ cleaned = <<>>
    /\ raw_sections = <<>>
    /\ section_texts = <<>>
    /\ section_titles = <<>>

\* cleaned = _strip_think_block(response)
StripThink ==
    /\ ppc = "start"
    /\ cleaned' = _strip_think_block(response)
    /\ ppc' = "cleaned"
    /\ UNCHANGED <<response, raw_sections, section_texts, section_titles, notParse>>

\* raw_sections = _extract_sections_raw(cleaned)
ExtractSections ==
    /\ ppc = "cleaned"
    /\ raw_sections' = _extract_sections_raw(cleaned)
    /\ ppc' = "extracted"
    /\ UNCHANGED <<response, cleaned, section_texts, section_titles, notParse>>

\* results = [_convert_section_format(s) for s in raw_sections]; return texts, titles
ConvertSections ==
    /\ ppc = "extracted"
    /\ LET results == [i \in 1..Len(raw_sections) |->
                          _convert_section_format(raw_sections[i])]
       IN  /\ section_titles' = [i \in 1..Len(results) |-> results[i][1]]
           /\ section_texts' = [i \in 1..Len(results) |-> results[i][2]]
    /\ ppc' = "returned"
    /\ UNCHANGED <<response, cleaned, raw_sections, notParse>>

NextParse == StripThink \/ ExtractSections \/ ConvertSections

SpecParse == InitParse /\ [][NextParse]_vars

-----------------------------------------------------------------------------
(* Citation reconciler: response_parser.filter_per_paper_summaries *)

NoMatch == [end |-> 0]

\* the match of CITATION_PATTERN
\*   \[(\d+)\s*\|\s*([^|]+?)\s*\|\s*(\d+)\s*\|\s*Citations:\s*(\d+)\]
\* that starts at i, with its four groups, or NoMatch.  The author group is
\* lazy and sits between two greedy \s*: it is the text between the first
\* two bars without its surrounding whitespace, or the last character of
\* that text when it is all whitespace.
CitationAt(s, i) ==
    LET id_end == AfterDigits(s, i + 1)
        bar1 == FirstNonSpace(s, id_end)
        bar2 == FindIn(s, {"|"}, bar1 + 1)
        between == Slice(s, bar1 + 1, bar2 - 1)
        year == FirstNonSpace(s, bar2 + 1)
        year_end == AfterDigits(s, year)
        bar3 == FirstNonSpace(s, year_end)
        word == FirstNonSpace(s, bar3 + 1)
        count == FirstNonSpace(s, word + 1)
        count_end == AfterDigits(s, count)
    IN  IF /\ i <= Len(s) /\ s[i] = "["
           /\ id_end > i + 1
           /\ bar1 <= Len(s) /\ s[bar1] = "|"
           /\ bar2 > bar1 + 1
           /\ year_end > year
           /\ bar3 <= Len(s) /\ s[bar3] = "|"
           /\ word <= Len(s) /\ s[word] = "Citations:"
           /\ count_end > count
           /\ count_end <= Len(s) /\ s[count_end] = "]"
        THEN [end |-> count_end,
              corpus_id |-> Slice(s, i + 1, id_end - 1),
              author_str |-> IF Strip(between) = <<>>
                             THEN <<between[Len(between)]>>
                             ELSE Strip(between),
              year |-> Slice(s, year, year_end - 1),
              citation_count |-> Slice(s, count, count_end - 1)]
        ELSE NoMatch

\* CITATION_PATTERN.findall(s) from position i: leftmost matches, not
\* overlapping
RECURSIVE FindAllCitations(_, _)
FindAllCitations(s, i) ==
    LET found == {j \in i..Len(s) : CitationAt(s, j).end # 0}
    IN  IF found = {} THEN <<>>
        ELSE LET m == CitationAt(s, Least(found))
             IN  <<[corpus_id |-> m.corpus_id, author_str |-> m.author_str,
                    year |-> m.year, citation_count |-> m.citation_count]>>
                     \o FindAllCitations(s, m.end + 1)

\* anyascii(f"[{corpus_id} | {author_str.strip()} | {year} | Citations: {citation_count}]")
CitationKey(c) ==
    AnyAscii(ReferenceString(c.corpus_id, Strip(c.author_str), c.year,
                             c.citation_count))

\* citation tokens as the model writes them
CiteDoe == KeyDoe
CiteXu == ReferenceString(<<"1">>, <<"X", "u">>, <<"2", "0">>, <<"5">>)
CiteRoeLoose ==
    <<"[", "2", "|", " ", " ", "R", "o", "EACUTE", " ", "\n", "|", "2", "1",
      " ", "|", "Citations:", "7", "]">>
CiteUnknown == ReferenceString(<<"9">>, <<"D", "o", "e">>, <<"2", "0">>, <<"5">>)
BrokenCite == <<"[", "1", " ", "|", " ", "D", "o", "e", "]">>

\* section texts of a response
SectionTexts ==
    {<<"T", "\n", "x", " ">> \o CiteDoe \o <<".">>,
     <<"T", "\n">> \o CiteXu \o <<" ">> \o CiteDoe,
     <<"T", "\n">> \o CiteRoeLoose \o <<" ", "x", " ">> \o CiteRoeLoose,
     <<"T", "\n">> \o CiteUnknown \o BrokenCite,
     <<"T", "\n", "x">>}

\* the precomputed record and quote metadata of a reference key
PerPaperOf(k) == [quote |-> k \o <<"q">>, inline_citations |-> <<>>]
QuotesOf(k) ==
    <<[quote |-> k \o <<"q">>, section_title |-> "abstract", pdf_hash |-> ""]>>

\* AlreadyCited without the membership test: every token is looked up
NeverCited(c) == FALSE

\* "if corpus_id in seen_corpus_ids: continue"
AlreadyCited(c) == c.corpus_id \in seen_corpus_ids

\* CopyEntries without the assignment to quotes_metadata
CopyPerPaperOnly(citation_key) ==
    /\ per_paper_summaries_extd' =
           Put(per_paper_summaries_extd, citation_key, f_per_paper_data[citation_key])
    /\ UNCHANGED f_quotes_metadata

\* the two assignments under "if citation_key in per_paper_data:", the second
\* of which needs the key in all_quotes_metadata
CopyEntries(citation_key) ==
    /\ per_paper_summaries_extd' =
           Put(per_paper_summaries_extd, citation_key, f_per_paper_data[citation_key])
    /\ f_quotes_metadata' =
           Put(f_quotes_metadata, citation_key, all_quotes_metadata[citation_key])

InitFilter ==
    /\ IdleNorm
    /\ IdleReport
    /\ IdleBreak
    /\ IdleAgg
    /\ IdleParse
    /\ IdleTldr
    /\ fpc = "start"
    /\ f_section_texts \in SeqUpTo(SectionTexts, MaxSections)
    /\ \E K \in SUBSET RefKeys : f_per_paper_data = [k \in K |-> PerPaperOf(k)]
    /\ \E K \in SUBSET RefKeys : all_quotes_metadata = [k \in K |-> QuotesOf(k)]
    /\ all_text = <<>>
    /\ citations = <<>>
    /\ cit_idx = 0
    /\ seen_corpus_ids = {}
    /\ per_paper_summaries_extd = <<>>
    /\ f_quotes_metadata = <<>>

\* all_text = "\n".join(section_texts); citations = CITATION_PATTERN.findall(all_text)
FindCitations ==
    /\ fpc = "start"
    /\ all_text' = Join(f_section_texts, <<"\n">>)
    /\ citations' = FindAllCitations(Join(f_section_texts, <<"\n">>), 1)
    /\ cit_idx' = 1
    /\ fpc' = "loop"
    /\ UNCHANGED <<f_section_texts, f_per_paper_data, all_quotes_metadata,
                   seen_corpus_ids, per_paper_summaries_extd, f_quotes_metadata,
                   notFilter>>

\* a citation whose corpus id was seen before: continue
SkipSeenCitation ==
    /\ fpc = "loop"
    /\ cit_idx <= Len(citations)
    /\ AlreadyCited(citations[cit_idx])
    /\ cit_idx' = cit_idx + 1
    /\ UNCHANGED <<fpc, f_section_texts, f_per_paper_data, all_quotes_metadata,
                   all_text, citations, seen_corpus_ids, per_paper_summaries_extd,
                   f_quotes_metadata, notFilter>>

\* a first citation of its corpus id whose key is precomputed
KnownCitation ==
    /\ fpc = "loop"
    /\ cit_idx <= Len(citations)
    /\ ~AlreadyCited(citations[cit_idx])
    /\ CitationKey(citations[cit_idx]) \in DOMAIN f_per_paper_data
    /\ CitationKey(citations[cit_idx]) \in DOMAIN all_quotes_metadata
    /\ seen_corpus_ids' = seen_corpus_ids \cup {citations[cit_idx].corpus_id}
    /\ CopyEntries(CitationKey(citations[cit_idx]))
    /\ cit_idx' = cit_idx + 1
    /\ UNCHANGED <<fpc, f_section_texts, f_per_paper_data, all_quotes_metadata,
                   all_text, citations, notFilter>>

\* a first citation of its corpus id whose key is in per_paper_data and not
\* in all_quotes_metadata: the second assignment raises KeyError
MissingQuotesMetadata ==
    /\ fpc = "loop"
    /\ cit_idx <= Len(citations)
    /\ ~AlreadyCited(citations[cit_idx])
    /\ CitationKey(citations[cit_idx]) \in DOMAIN f_per_paper_data
    /\ CitationKey(citations[cit_idx]) \notin DOMAIN all_quotes_metadata
    /\ seen_corpus_ids' = seen_corpus_ids \cup {citations[cit_idx].corpus_id}
    /\ per_paper_summaries_extd' =
           Put(per_paper_summaries_extd, CitationKey(citations[cit_idx]),
               f_per_paper_data[CitationKey(citations[cit_idx])])
    /\ fpc' = "KeyError"
    /\ UNCHANGED <<f_section_texts, f_per_paper_data, all_quotes_metadata,
                   all_text, citations, cit_idx, f_quotes_metadata, notFilter>>

\* a first citation of its corpus id whose key is not precomputed: dropped
UnknownCitation ==
    /\ fpc = "loop"
    /\ cit_idx <= Len(citations)
    /\ ~AlreadyCited(citations[cit_idx])
    /\ CitationKey(citations[cit_idx]) \notin DOMAIN f_per_paper_data
    /\ seen_corpus_ids' = seen_corpus_ids \cup {citations[cit_idx].corpus_id}
    /\ cit_idx' = cit_idx + 1
    /\ UNCHANGED <<fpc, f_section_texts, f_per_paper_data, all_quotes_metadata,
                   all_text, citations, per_paper_summaries_extd,
                   f_quotes_metadata, notFilter>>

\* return per_paper_summaries_extd, quotes_metadata
ReturnFiltered ==
    /\ fpc = "loop"
    /\ cit_idx > Len(citations)
    /\ fpc' = "returned"
    /\ UNCHANGED <<f_section_texts, f_per_paper_data, all_quotes_metadata,
                   all_text, citations, cit_idx, seen_corpus_ids,
                   per_paper_summaries_extd, f_quotes_metadata, notFilter>>

NextFilter ==
    \/ FindCitations
    \/ SkipSeenCitation
    \/ KnownCitation
    \/ MissingQuotesMetadata
    \/ UnknownCitation
    \/ ReturnFiltered

SpecFilter == InitFilter /\ [][NextFilter]_vars

-----------------------------------------------------------------------------
(* Summary-line cleanup: response_parser._clean_tldr on its own, as in TestCleanTldr *)

\* the pieces the summary lines of the tests are made of
SummaryText == <<"TLDR;", " ", "x", ".">>
ModelGenerated == <<" ", "(", "Model", "-", "Generated", ")">>
LlmMemory == <<" ", "(", "LLM", " ", "Memory", ")">>
OneSource == <<" ", "(", "1", " ", "source", ")">>
ManySources == <<" ", "(", "1", "9", " ", "source", "s", ")">>
InlineCitation == <<" ">> \o CiteDoe
LooseCitation ==
    <<" ", "[", "1", " ", "|", " ", " ", "D", "o", "e", " ", " ", "|", " ", " ",
      "2", "0", " ", " ", "|", " ", " ", "Citations:", " ", " ", "5", "]">>
Period == <<".">>

SummaryFragments ==
    {SummaryText, ModelGenerated, LlmMemory, OneSource, ManySources,
     InlineCitation, LooseCitation, Period}

\* the concatenation of a list of fragments
RECURSIVE Concat(_)
Concat(l) == IF l = <<>> THEN <<>> ELSE Head(l) \o Concat(Tail(l))

InitTldr ==
    /\ IdleNorm
    /\ IdleReport
    /\ IdleBreak
    /\ IdleAgg
    /\ IdleParse
    /\ IdleFilter
    /\ tpc = "start"
    /\ \E l \in SeqUpTo(SummaryFragments, MaxFragments) \ {<<>>} :
           summary_line = Concat(l)
    /\ cleaned_line = <<>>

\* _clean_tldr(tldr)
CleanTldr ==
    /\ tpc = "start"
    /\ cleaned_line' = _clean_tldr(summary_line)
    /\ tpc' = "done"
    /\ UNCHANGED <<summary_line, notTldr>>

NextTldr == CleanTldr

SpecTldr == InitTldr /\ [][NextTldr]_vars

-----------------------------------------------------------------------------
(* Report generation: scholar_qa_lite.ScholarQALite.generate_report and _generate_title *)

\* parse_title(response)
parse_title(content) == _strip_think_block(content)

\* rows of the reranked table of a request
RowDoeSnippets ==
    [reference_string |-> KeyDoe, sentences |-> <<SnippetA, SnippetB>>,
     abstract |-> <<"X", ".">>]
RowDoeAbstract ==
    [reference_string |-> KeyDoe, sentences |-> <<>>, abstract |-> <<"X", ".">>]
RowRoeAbstract ==
    [reference_string |-> KeyRoe, sentences |-> <<>>, abstract |-> <<"X", ".">>]

ReportRows == {RowDoeSnippets, RowDoeAbstract, RowRoeAbstract}

\* replies of the generation model: no section; one section that cites Doe
\* twice and an unknown paper; a think block and two sections
ReplyNoSection == <<"a", ".">>
ReplyOneSection ==
    <<"SECTION;", " ", "T", "\n", "TLDR;", " ", "s", ".", "\n", "x", " ">>
        \o CiteDoe \o <<" ">> \o CiteDoe \o <<" ">> \o CiteUnknown \o <<".">>
ReplyTwoSections ==
    <<"<think>", "a", "</think>", "SECTION;", "T", "\n", "s", "\n">>
        \o KeyRoe \o <<"\n", "SECTION;", "U">>

ReportReplies == {ReplyNoSection, ReplyOneSection, ReplyTwoSections}

\* replies of the title model
TitleReplies == {<<"R">>, <<"<think>", "a", "</think>", " ", "R">>}

\* self.report_title before generate_report assigns it
TitleUnset == <<"UNSET">>

InitReport ==
    /\ IdleNorm
    /\ IdleBreak
    /\ IdleTldr
    /\ apc = "loop"
    /\ scored_df \in SeqUpTo(ReportRows, MaxRows)
    /\ row_idx = 1
    /\ references = <<>>
    /\ per_paper_data = <<>>
    /\ quotes_metadata = <<>>
    /\ IdleParse
    /\ IdleFilter
    /\ gpc = "prepare"
    /\ title_outcome = "none"
    /\ title_calls = 0
    /\ report_title = TitleUnset
    /\ report = <<>>

\* completion_result = llm_completion(...); response = completion_result.content
CompletionReturns ==
    /\ gpc = "prepare"
    /\ apc = "returned"
    /\ response' \in ReportReplies
    /\ ppc' = "start"
    /\ gpc' = "parse"
    /\ UNCHANGED <<cleaned, raw_sections, section_texts, section_titles,
                   title_outcome, title_calls, report_title, report,
                   normVars, aggVars, tldrVars, filterVars, breakVars>>

\* llm_completion raises: nothing in generate_report catches it
CompletionRaises ==
    /\ gpc = "prepare"
    /\ apc = "returned"
    /\ gpc' = "completion_raised"
    /\ UNCHANGED <<title_outcome, title_calls, report_title, report,
                   normVars, aggVars, parseVars, tldrVars, filterVars,
                   breakVars>>

\* "if not section_titles:"
NoSectionTitles(titles) == titles = <<>>

\* TitleOnException without the except clause: the exception leaves
\* _generate_title and generate_report
TitleExceptionPropagates(stage) ==
    /\ title_outcome' = stage
    /\ gpc' = "title_raised"
    /\ UNCHANGED report_title

\* "except Exception as e: ...; return ''" and the assignment of the result
\* to self.report_title
TitleOnException(stage) ==
    /\ title_outcome' = stage
    /\ report_title' = <<>>
    /\ gpc' = "titled"

\* _generate_title with no section titles: return "" before the try block
TitleSkipped ==
    /\ gpc = "parse"
    /\ ppc = "returned"
    /\ NoSectionTitles(section_titles)
    /\ title_outcome' = "skipped"
    /\ report_title' = <<>>
    /\ gpc' = "titled"
    /\ UNCHANGED <<title_calls, report, normVars, aggVars, parseVars, tldrVars,
                   filterVars, breakVars>>

\* build_title_prompt raises
TitlePromptRaises ==
    /\ gpc = "parse"
    /\ ppc = "returned"
    /\ ~NoSectionTitles(section_titles)
    /\ TitleOnException("prompt_error")
    /\ UNCHANGED <<title_calls, report, normVars, aggVars, parseVars, tldrVars,
                   filterVars, breakVars>>

\* llm_completion for the title raises
TitleCompletionRaises ==
    /\ gpc = "parse"
    /\ ppc = "returned"
    /\ ~NoSectionTitles(section_titles)
    /\ title_calls' = title_calls + 1
    /\ TitleOnException("completion_error")
    /\ UNCHANGED <<report, normVars, aggVars, parseVars, tldrVars, filterVars,
                   breakVars>>

\* llm_completion returns a result whose content parse_title cannot process
\* (content is None: re.sub raises TypeError)
TitleParseRaises ==
    /\ gpc = "parse"
    /\ ppc = "returned"
    /\ ~NoSectionTitles(section_titles)
    /\ title_calls' = title_calls + 1
    /\ TitleOnException("parse_error")
    /\ UNCHANGED <<report, normVars, aggVars, parseVars, tldrVars, filterVars,
                   breakVars>>

\* the try block runs to its end: return parse_title(result.content)
TitleParsed ==
    /\ gpc = "parse"
    /\ ppc = "returned"
    /\ ~NoSectionTitles(section_titles)
    /\ title_calls' = title_calls + 1
    /\ \E content \in TitleReplies : report_title' = parse_title(content)
    /\ title_outcome' = "parsed"
    /\ gpc' = "titled"
    /\ UNCHANGED <<report, normVars, aggVars, parseVars, tldrVars, filterVars,
                   breakVars>>

\* the call filter_per_paper_summaries(section_texts, per_paper_data,
\* all_quotes_metadata) binds the arguments
CallFilter ==
    /\ gpc = "titled"
    /\ f_section_texts' = section_texts
    /\ f_per_paper_data' = per_paper_data
    /\ all_quotes_metadata' = quotes_metadata
    /\ fpc' = "start"
    /\ gpc' = "reconcile"
    /\ UNCHANGED <<all_text, citations, cit_idx, seen_corpus_ids,
                   per_paper_summaries_extd, f_quotes_metadata,
                   title_outcome, title_calls, report_title, report,
                   normVars, aggVars, parseVars, tldrVars, breakVars>>

\* return GeneratedReportData(report_title=self.report_title, ...,
\* cost_result=CostAwareLLMResult(result=section_texts, ...),
\* quotes_metadata=quotes_metadata)
ReturnReport ==
    /\ gpc = "reconcile"
    /\ fpc = "returned"
    /\ report' = [report_title |-> report_title,
                  result |-> section_texts,
                  quotes_metadata |-> f_quotes_metadata]
    /\ gpc' = "returned"
    /\ UNCHANGED <<title_outcome, title_calls, report_title,
                   normVars, aggVars, parseVars, tldrVars, filterVars,
                   breakVars>>

\* generate_report runs prepare_references_data, parse_sections and
\* filter_per_paper_summaries in turn.  MissingQuotesMetadata is not a step
\* of it: prepare_references_data writes per_paper_data and quotes_metadata
\* under the same keys.
NextReport ==
    \/ SkipSeenRow
    \/ SnippetRow
    \/ AbstractRow
    \/ ReturnReferences
    \/ CompletionReturns
    \/ CompletionRaises
    \/ StripThink
    \/ ExtractSections
    \/ ConvertSections
    \/ TitleSkipped
    \/ TitlePromptRaises
    \/ TitleCompletionRaises
    \/ TitleParseRaises
    \/ TitleParsed
    \/ CallFilter
    \/ FindCitations
    \/ SkipSeenCitation
    \/ KnownCitation
    \/ UnknownCitation
    \/ ReturnFiltered
    \/ ReturnReport

SpecReport == InitReport /\ [][NextReport]_vars

-----------------------------------------------------------------------------
(* Paragraph breaks: response_parser._normalize_paragraph_breaks on its own, as in TestNormalizeParagraphBreaks *)

BreakAtoms == {".", "?", "\n", "A", "a", "-"}

\* the inputs of TestNormalizeParagraphBreaks, each sentence cut down to its
\* first letter and its last character
TestBreakTexts ==
    {<<"A", ".", "\n", "S", ".">>,
     <<"A", ".", "\n", "\n", "S", ".">>,
     <<"A", "!", "\n", "S", "?", "\n", "T", ".">>,
     <<"T", "a", "\n", "a", ".">>,
     <<"A", ".", "\n", "-", " ", "A", "\n", "-", " ", "A">>}

InitBreak ==
    /\ IdleNorm
    /\ IdleReport
    /\ IdleAgg
    /\ IdleParse
    /\ IdleTldr
    /\ IdleFilter
    /\ bpc = "start"
    /\ body_text \in SeqUpTo(BreakAtoms, MaxBodyLen) \cup TestBreakTexts
    /\ broken_once = <<>>
    /\ broken_twice = <<>>

\* result = _normalize_paragraph_breaks(text)
NormalizeBreaks ==
    /\ bpc = "start"
    /\ broken_once' = _normalize_paragraph_breaks(body_text)
    /\ bpc' = "once"
    /\ UNCHANGED <<body_text, broken_twice, notBreak>>

\* _normalize_paragraph_breaks applied to its own result
NormalizeBreaksAgain ==
    /\ bpc = "once"
    /\ broken_twice' = _normalize_paragraph_breaks(broken_once)
    /\ bpc' = "twice"
    /\ UNCHANGED <<body_text, broken_once, notBreak>>

NextBreak == NormalizeBreaks \/ NormalizeBreaksAgain

SpecBreak == InitBreak /\ [][NextBreak]_vars

-----------------------------------------------------------------------------
(* Claims about the summary-line cleanup *)

\* s holds a (Model-Generated) / (LLM Memory) style annotation, a source
\* count annotation or an inline citation bracket
Annotated(s) ==
    \E i \in 1..Len(s) :
        \/ s[i] \in {"(", "["} /\ AnnotationEnd(s, i) # 0
        \/ s[i] = "(" /\ SourceCountEnd(s, i) # 0
        \/ CitationAt(s, i).end # 0

\* C3: the cleaned summary line holds no annotation, no source count and no
\* inline citation bracket, and a line holding none of them is returned
\* unchanged.
SummaryLineCleaned ==
    tpc = "done" =>
        /\ ~Annotated(cleaned_line)
        /\ ~Annotated(summary_line) => cleaned_line = summary_line

-----------------------------------------------------------------------------
(* Claims about the citation reconciler *)

\* m is a sub-mapping of whole: each of its keys maps to the same value
SubMapping(m, whole) ==
    /\ DOMAIN m \subseteq DOMAIN whole
    /\ \A k \in DOMAIN m : m[k] = whole[k]

\* C6: the two returned mappings have identical key sets, the first is a
\* sub-mapping of per_paper_data and the second of all_quotes_metadata.
FilteredAligned ==
    fpc = "returned" =>
        /\ DOMAIN per_paper_summaries_extd = DOMAIN f_quotes_metadata
        /\ SubMapping(per_paper_summaries_extd, f_per_paper_data)
        /\ SubMapping(f_quotes_metadata, all_quotes_metadata)

\* C6 witness: a return with one key kept and one precomputed key left out
FilteredAlignedWitness ==
    /\ fpc = "returned"
    /\ Cardinality(DOMAIN per_paper_summaries_extd) = 1
    /\ Cardinality(DOMAIN f_per_paper_data) = 2

\* the citation tokens that are the first of their corpus id in scan order
FirstOfCorpusId ==
    {i \in 1..Len(citations) :
        \A j \in 1..(i - 1) : citations[j].corpus_id # citations[i].corpus_id}

\* the canonical key of a token: author trimmed, fields joined by " | ",
\* transliterated to ASCII
Canonical(c) ==
    AnyAscii(<<"[">> \o c.corpus_id \o <<" ", "|", " ">> \o Strip(c.author_str)
                 \o <<" ", "|", " ">> \o c.year
                 \o <<" ", "|", " ", "Citations:", " ">> \o c.citation_count
                 \o <<"]">>)

\* C7: a key is in the filtered output exactly when the first token of some
\* corpus id canonicalises to it and it is a key of per_paper_data; tokens
\* of a seen corpus id are not looked up and unknown tokens raise no error.
FirstCitationWins ==
    /\ fpc = "returned" =>
           \A k \in DOMAIN per_paper_summaries_extd \cup DOMAIN f_per_paper_data :
               k \in DOMAIN per_paper_summaries_extd <=>
                   /\ k \in DOMAIN f_per_paper_data
                   /\ \E i \in FirstOfCorpusId : Canonical(citations[i]) = k
    /\ fpc = "KeyError" =>
           Canonical(citations[cit_idx]) \in DOMAIN f_per_paper_data

\* C7 witness: the first token of corpus id 1 is unknown and a later token
\* of corpus id 1 names a precomputed key, which is left out; another key,
\* cited twice in a loose form, is kept; an unknown corpus id is dropped
FirstCitationWinsWitness ==
    /\ fpc = "returned"
    /\ KeyDoe \in DOMAIN f_per_paper_data
    /\ KeyDoe \notin DOMAIN per_paper_summaries_extd
    /\ \E i \in 1..Len(citations) : Canonical(citations[i]) = KeyDoe
    /\ KeyRoe \in DOMAIN per_paper_summaries_extd
    /\ Len(citations) > Cardinality(seen_corpus_ids)

-----------------------------------------------------------------------------
(* Claims about the response parser *)

\* the positions of the "SECTION;" markers of s
MarkerPositions(s) == {i \in 1..Len(s) : s[i] = "SECTION;"}

\* the text between the marker at p and the next marker, or the end
FragmentAfter(s, p) ==
    LET later == {q \in MarkerPositions(s) : q > p}
        stop == IF later = {} THEN Len(s) + 1 ELSE Least(later)
    IN  Slice(s, p + 1, stop - 1)

\* the markers that are followed by text other than whitespace
LiveMarkers(s) == {p \in MarkerPositions(s) : Strip(FragmentAfter(s, p)) # <<>>}

\* C8 as stated: a response with exactly n markers gives exactly n section
\* texts and n titles.
OneSectionPerMarker ==
    ppc = "returned" =>
        /\ Len(section_texts) = Cardinality(MarkerPositions(cleaned))
        /\ Len(section_titles) = Cardinality(MarkerPositions(cleaned))

\* C8 amended: there is one section text and one title per marker that is
\* followed by text other than whitespace, in source order, each derived
\* from the text after its marker.
OneSectionPerLiveMarker ==
    ppc = "returned" =>
        LET live == LiveMarkers(cleaned)
        IN  /\ Len(section_texts) = Cardinality(live)
            /\ Len(section_titles) = Cardinality(live)
            /\ \A p \in live :
                   LET i == Cardinality({q \in live : q <= p})
                       section == _convert_section_format(
                                      Strip(FragmentAfter(cleaned, p)))
                   IN  /\ section_titles[i] = section[1]
                       /\ section_texts[i] = section[2]

\* C8 witness: two sections are returned and one more marker has no text
OneSectionPerLiveMarkerWitness ==
    /\ ppc = "returned"
    /\ Len(section_texts) = 2
    /\ section_titles[1] # <<>>
    /\ Cardinality(MarkerPositions(cleaned)) = 3

\* C9: a response without a marker after think-block removal gives two
\* empty sequences.
NoMarkerNoSections ==
    MarkerPositions(cleaned) = {} =>
        /\ ppc = "extracted" => raw_sections = <<>>
        /\ ppc = "returned" => section_texts = <<>> /\ section_titles = <<>>

\* C9 witness: the visible text is not empty and holds no marker, the only
\* marker of the response being inside the think block
NoMarkerNoSectionsWitness ==
    /\ ppc = "returned"
    /\ cleaned # <<>>
    /\ MarkerPositions(cleaned) = {}
    /\ MarkerPositions(response) # {}

\* the lines of s
Lines(s) == Split(s, <<"\n">>)

\* the lines of a raw section after its first, from the first that is not
\* blank on
ContentLines(raw) ==
    LET lines == Lines(raw)
        filled == {j \in 2..Len(lines) : Strip(lines[j]) # <<>>}
    IN  IF filled = {} THEN <<>> ELSE SubSeq(lines, Least(filled), Len(lines))

\* title, summary and body of a raw section, line by line
TitleOf(raw) == Strip(Lines(raw)[1])
SummaryOf(raw) ==
    IF ContentLines(raw) = <<>> THEN <<>> ELSE _clean_tldr(ContentLines(raw)[1])
BodyOf(raw) ==
    IF Len(ContentLines(raw)) < 2 THEN <<>>
    ELSE _normalize_paragraph_breaks(
             _normalize_llm_memory(Strip(Join(Tail(ContentLines(raw)), <<"\n">>))))

\* C15: for every raw section fragment the title is its trimmed first line,
\* the summary is the cleaned next line of the remaining content, the body is
\* the cleaned rest, and the section text is title, "\n", summary, "\n", body,
\* with section_titles[i] the title of section_texts[i]; a fragment of one
\* line gives that line as title and an empty summary and body, and a
\* section with nothing after its summary line gives an empty body.
SectionReassembled ==
    ppc = "returned" =>
        /\ Len(section_texts) = Len(raw_sections)
        /\ Len(section_titles) = Len(raw_sections)
        /\ \A i \in 1..Len(raw_sections) :
               LET raw == raw_sections[i]
               IN  /\ section_titles[i] = TitleOf(raw)
                   /\ section_texts[i] =
                          TitleOf(raw) \o <<"\n">> \o SummaryOf(raw) \o <<"\n">>
                              \o BodyOf(raw)
                   /\ Lines(section_texts[i])[1] = section_titles[i]
                   /\ Len(Lines(raw)) = 1 =>
                          section_texts[i] = raw \o <<"\n", "\n">>
                   /\ Len(ContentLines(raw)) = 1 =>
                          /\ BodyOf(raw) = <<>>
                          /\ section_texts[i][Len(section_texts[i])] = "\n"

\* C15 witness: a section whose summary line lost an annotation and whose
\* body got a paragraph break
SectionReassembledWitness ==
    /\ ppc = "returned"
    /\ \E i \in 1..Len(raw_sections) :
           /\ SummaryOf(raw_sections[i]) # <<>>
           /\ SummaryOf(raw_sections[i]) # Strip(ContentLines(raw_sections[i])[1])
           /\ Len(BodyOf(raw_sections[i])) > 
                  Len(Strip(Join(Tail(ContentLines(raw_sections[i])), <<"\n">>)))

-----------------------------------------------------------------------------
(* Claims about the aggregator *)

\* the text a row yields: its snippet texts joined by a space, or its abstract
DerivedText(row) ==
    IF row.sentences # <<>>
    THEN Join([i \in 1..Len(row.sentences) |-> row.sentences[i].text], <<" ">>)
    ELSE row.abstract

\* the rows of the table that yield non-empty text
TextRows == {i \in 1..Len(scored_df) : DerivedText(scored_df[i]) # <<>>}

\* C4: the three returned mappings have identical key sets, and that key set
\* is exactly the set of reference keys of the rows that yield non-empty text.
AlignedKeySets ==
    /\ DOMAIN references = DOMAIN per_paper_data
    /\ DOMAIN references = DOMAIN quotes_metadata
    /\ apc = "returned" =>
           DOMAIN references = {scored_df[i].reference_string : i \in TextRows}

\* C4 witness: a returned table with an emitted key and a row without
\* snippets and without abstract whose key is in none of the mappings
AlignedKeySetsWitness ==
    /\ apc = "returned"
    /\ DOMAIN references # {}
    /\ \E i \in 1..Len(scored_df) :
           /\ scored_df[i].sentences = <<>>
           /\ scored_df[i].abstract = <<>>
           /\ scored_df[i].reference_string \notin DOMAIN references

\* C5: for every emitted key, the quotes of its quotes_metadata entries
\* joined in list order by "..." equal the combined quote of per_paper_data.
QuotesJoinToCombined ==
    \A k \in DOMAIN quotes_metadata :
        /\ k \in DOMAIN per_paper_data
        /\ Join([i \in 1..Len(quotes_metadata[k]) |-> quotes_metadata[k][i].quote],
                Separator)
               = per_paper_data[k]["quote"]

\* C5 witness: one key emitted from two snippets and one from an abstract
QuotesJoinWitness ==
    /\ apc = "returned"
    /\ \E k \in DOMAIN quotes_metadata : Len(quotes_metadata[k]) = 2
    /\ \E i \in 1..Len(scored_df) :
           /\ scored_df[i].sentences = <<>>
           /\ scored_df[i].reference_string \in DOMAIN quotes_metadata
           /\ Len(quotes_metadata[scored_df[i].reference_string]) = 1

\* what one row contributes when it is the row that is emitted
RowOutput(row) ==
    IF row.sentences # <<>> THEN FromSnippets(row) ELSE FromAbstract(row)

\* the entries returned for key k are those of row i
EntriesFrom(k, i) ==
    LET out == RowOutput(scored_df[i])
    IN  /\ references[k] = out.text
        /\ per_paper_data[k]["quote"] = out.combined_quote
        /\ quotes_metadata[k] = out.snippet_metadata

\* the rows carrying key k
RowsOf(k) == {i \in 1..Len(scored_df) : scored_df[i].reference_string = k}

\* C10 as stated: the entries returned for a key are those derived from the
\* first row of the table carrying that key.
FirstRowWins ==
    apc = "returned" =>
        \A k \in DOMAIN references : EntriesFrom(k, Least(RowsOf(k)))

\* C10 amended: the entries returned for a key are those derived from the
\* first row carrying that key that yields non-empty text; rows with that
\* key before it emit nothing and rows after it are skipped.
FirstTextRowWins ==
    apc = "returned" =>
        \A k \in DOMAIN references :
            /\ RowsOf(k) \cap TextRows # {}
            /\ EntriesFrom(k, Least(RowsOf(k) \cap TextRows))

\* C10 witness: two rows with the same key, both yielding text, with
\* different outputs
FirstTextRowWinsWitness ==
    /\ apc = "returned"
    /\ \E i, j \in TextRows :
           /\ i < j
           /\ scored_df[i].reference_string = scored_df[j].reference_string
           /\ RowOutput(scored_df[i]) # RowOutput(scored_df[j])

\* the char_offset a snippet sorts by: 0 when it carries none
OffsetOrZero(sent) == IF "char_offset" \in DOMAIN sent THEN sent.char_offset ELSE 0

\* the stable ascending order of the snippets l: the arrangement p of the
\* indices of l with offsets ascending and, among equal offsets, indices
\* ascending
StableOrder(l) ==
    CHOOSE p \in [1..Len(l) -> 1..Len(l)] :
        \A a, b \in 1..Len(l) :
            a < b =>
                \/ OffsetOrZero(l[p[a]]) < OffsetOrZero(l[p[b]])
                \/ /\ OffsetOrZero(l[p[a]]) = OffsetOrZero(l[p[b]])
                   /\ p[a] < p[b]

\* the row whose entries key k holds
EmittedRow(k) == scored_df[Least(RowsOf(k) \cap TextRows)]

\* C13: for every row with snippets, the snippets are stably sorted ascending
\* by char_offset, a missing char_offset counting as 0; the reference text is
\* the raw snippet texts in that order joined by one space, and the combined
\* quote is the normalized snippet texts in that same order joined by "...".
SnippetsInOffsetOrder ==
    apc = "returned" =>
        \A k \in DOMAIN references :
            LET l == EmittedRow(k).sentences
                p == StableOrder(l)
            IN  l # <<>> =>
                    /\ references[k] =
                           Join([i \in 1..Len(l) |-> l[p[i]].text], <<" ">>)
                    /\ per_paper_data[k]["quote"] =
                           Join([i \in 1..Len(l) |->
                                    normalize_snippet_quote(l[p[i]].text)],
                                Separator)

\* C13 witness: texts "A." at offset 5 and "B." at a smaller offset, in that
\* order in the row, give reference text "B. A." and combined quote "B...A"
SnippetsInOffsetOrderWitness ==
    /\ apc = "returned"
    /\ \E k \in DOMAIN references :
           /\ EmittedRow(k).sentences = <<SnippetA, SnippetB>>
           /\ references[k] = <<"B", ".", " ", "A", ".">>
           /\ per_paper_data[k]["quote"] = <<"B", ".", ".", ".", "A">>

\* the four fields of a quote metadata entry
MetadataFields == {"quote", "section_title", "pdf_hash", "sentence_offsets"}

\* C14: for every emitted key, quotes_metadata[key] has exactly one entry per
\* contributing snippet, ordered by char_offset, and every entry carries the
\* four fields quote, section_title, pdf_hash and sentence_offsets, with
\* section_title defaulting to "abstract"; the entry of a row that falls
\* back to its abstract is such an entry too.
QuoteMetadataShape ==
    apc = "returned" =>
        \A k \in DOMAIN quotes_metadata :
            LET l == EmittedRow(k).sentences
                p == StableOrder(l)
                entries == quotes_metadata[k]
            IN  /\ Len(entries) = IF l = <<>> THEN 1 ELSE Len(l)
                /\ \A i \in 1..Len(entries) : DOMAIN entries[i] = MetadataFields
                /\ l # <<>> =>
                       \A i \in 1..Len(l) :
                           /\ entries[i].quote = normalize_snippet_quote(l[p[i]].text)
                           /\ entries[i].section_title =
                                  IF "section_title" \in DOMAIN l[p[i]]
                                  THEN l[p[i]].section_title ELSE "abstract"
                /\ l = <<>> => entries[1].section_title = "abstract"

-----------------------------------------------------------------------------
(* Claims about the quote normalizer *)

\* C1: for every list of input texts, joining the normalized forms with "..."
\* and then splitting on "..." and stripping each piece gives back exactly the
\* list of normalized forms.
RoundTripLaw == npc \in {"split", "done"} => split_back = normalized

\* C2: normalize_snippet_quote is idempotent: normalizing an already
\* normalized quote returns it unchanged.
NormalizeIdempotent == npc = "done" => renormalized = normalized

-----------------------------------------------------------------------------
(* Claims about report generation *)

\* the paths of _generate_title on which the try block raised
TitleFailures == {"prompt_error", "completion_error", "parse_error"}

\* C11: a failure of title generation never aborts a request: when building
\* the title prompt, the title model call or title parsing raises, nothing
\* leaves _generate_title, the title is the empty string, generate_report
\* goes on to the reconciliation and returns the parsed sections with
\* report_title ""; with no section titles no title model call is made and
\* the title is "".
TitleFailureDegrades ==
    /\ gpc # "title_raised"
    /\ title_outcome \in TitleFailures =>
           /\ report_title = <<>>
           /\ gpc \in {"titled", "reconcile", "returned"}
    /\ (gpc = "returned" /\ title_outcome \in TitleFailures) =>
           /\ fpc = "returned"
           /\ report.report_title = <<>>
           /\ report.result = section_texts
           /\ Len(report.result) = Len(raw_sections)
    /\ (ppc = "returned" /\ NoSectionTitles(section_titles)) =>
           /\ title_calls = 0
           /\ title_outcome \in {"none", "skipped"}
    /\ title_outcome = "skipped" => report_title = <<>>

\* C11 witness: a request whose title generation raised has returned its
\* sections and the quote metadata of a cited paper
TitleFailureDegradesWitness ==
    /\ gpc = "returned"
    /\ title_outcome \in TitleFailures
    /\ report.result # <<>>
    /\ DOMAIN report.quotes_metadata # {}

-----------------------------------------------------------------------------
(* Claims about the paragraph breaks *)

\* the positions of s where a '.', '!' or '?' is immediately followed by one
\* newline and then an upper-case letter
SentenceEnds(s) ==
    {i \in 1..Len(s) :
        /\ s[i] \in {".", "!", "?"}
        /\ i + 2 <= Len(s)
        /\ s[i + 1] = "\n"
        /\ StartsUpper(s[i + 2])}

\* s with one newline put in front of the upper-case letter of every
\* position of SentenceEnds(s) and every character of s kept
WithExtraNewlines(s) ==
    Join([j \in 1..Len(s) |->
             IF j > 2 /\ (j - 2) \in SentenceEnds(s)
             THEN <<"\n", s[j]>> ELSE <<s[j]>>], <<>>)

\* C12: _normalize_paragraph_breaks inserts one extra newline at exactly the
\* positions where a '.', '!' or '?' is immediately followed by a single
\* newline and then an upper-case letter A-Z and leaves every other
\* character unchanged; a text with no such position (lower-case
\* continuations, list items starting with '-', paragraphs already separated
\* by a blank line) is returned unchanged, and applying it twice equals
\* applying it once.
BreaksOnlyAtSentenceEnds ==
    /\ bpc \in {"once", "twice"} =>
           /\ broken_once = WithExtraNewlines(body_text)
           /\ Len(broken_once) = Len(body_text) + Cardinality(SentenceEnds(body_text))
           /\ SentenceEnds(body_text) = {} => broken_once = body_text
    /\ bpc = "twice" => broken_twice = broken_once

\* C12 witness: a text with a sentence end and with a line that starts with a
\* lower-case letter or '-', normalized twice
BreaksOnlyAtSentenceEndsWitness ==
    /\ bpc = "twice"
    /\ SentenceEnds(body_text) # {}
    /\ \E i \in 1..(Len(body_text) - 1) :
           /\ body_text[i] = "\n"
           /\ body_text[i + 1] \in {"a", "-"}

=============================================================================
